---------------------------- MODULE Spec2Model ----------------------------
(***************************************************************************)
(* A model of pyzinc (src/pyzinc/pyzinc.py): the ZINC header splitter, the *)
(* column tokenizer, the metadata normalizer, the type coercion of data    *)
(* columns and the assembly of the frame and of the series.                *)
(*                                                                         *)
(* Text is a sequence of characters; a character is a one-element token    *)
(* (a TLA+ string).  The character written "deg" stands for the degree     *)
(* sign.  Python's str slices, strip, rstrip, split and endswith are       *)
(* modelled on such sequences by what they do.                             *)
(*                                                                         *)
(* Every operation of the library is a synchronous pure function, so the   *)
(* state machine is a call: pc = "ready" with the argument in arg, then    *)
(* pc = "done" with the returned value (or the raised exception) in ret.   *)
(***************************************************************************)
EXTENDS Integers, Sequences, FiniteSets, TLC

VARIABLES
    pc,     \* "ready": the call has not been made; "done": it has returned or raised
    arg,    \* the argument of the call
    ret     \* the value returned, or the exception raised

vars == <<pc, arg, ret>>

(***************************************************************************)
(* Bounds of the model.                                                    *)
(***************************************************************************)
\* longest header string given to _split_columns
MaxLen == 4
\* most tags declared on one column after its name
MaxTags == 3

(***************************************************************************)
(* Characters and Python string primitives.                                *)
(***************************************************************************)
BS == "\\"
DQ == "\""
SP == " "
COMMA == ","
COLON == ":"
AT == "@"

Min(a, b) == IF a < b THEN a ELSE b

\* Python s[a:b] for 0 <= a, with b clamped to len(s); indices are 0-based.
Slice(s, a, b) == SubSeq(s, a + 1, Min(b, Len(s)))

\* s[j] of Python, 0-based, for 0 <= j < len(s).
CharAt(s, j) == s[j + 1]

RECURSIVE SeqsUpTo(_, _)
\* All sequences over alphabet A of length at most n.
SeqsUpTo(A, n) ==
    IF n = 0 THEN {<<>>}
    ELSE LET shorter == SeqsUpTo(A, n - 1)
         IN  shorter \cup {Append(t, c) : t \in shorter, c \in A}

RECURSIVE Join(_, _)
\* Python sep.join(parts).
Join(parts, sep) ==
    IF Len(parts) = 0 THEN <<>>
    ELSE IF Len(parts) = 1 THEN parts[1]
    ELSE parts[1] \o <<sep>> \o Join(Tail(parts), sep)

(***************************************************************************)
(* _split_columns (pyzinc.py 159-173).                                     *)
(***************************************************************************)
\* A mutant of IsSplitPoint: every comma splits, quoted or not.
IsSplitPointAnyComma(c, inside_quotes) == c = COMMA

\* line 168: elif c == "," and not inside_quotes
IsSplitPoint(c, inside_quotes) == c = COMMA /\ ~inside_quotes

RECURSIVE SplitScan(_, _, _, _, _)
\* The while loop of lines 162-171 from the state (i, j, inside_quotes), with
\* the segments yielded so far in out, and the final yield of line 173.
SplitScan(s, i, j, inside_quotes, out) ==
    IF j >= Len(s) THEN Append(out, Slice(s, i + 1, j))
    ELSE LET c == CharAt(s, j)
         IN  IF c = BS THEN SplitScan(s, i, j + 2, inside_quotes, out)
             ELSE IF c = DQ THEN SplitScan(s, i, j + 1, ~inside_quotes, out)
             ELSE IF IsSplitPoint(c, inside_quotes)
                  THEN SplitScan(s, j, j + 1, inside_quotes,
                                 Append(out, Slice(s, i + 1, j)))
             ELSE SplitScan(s, i, j + 1, inside_quotes, out)

\* list(_split_columns(s))
SplitColumns(s) == SplitScan(s, -1, 0, FALSE, <<>>)

\* Headers given to _split_columns: every string over these characters.
SplitAlphabet == {"a", COMMA, DQ, BS}
SplitInputs == SeqsUpTo(SplitAlphabet, MaxLen)

InitSplit ==
    /\ pc = "ready"
    /\ arg \in SplitInputs
    /\ ret = <<>>

CallSplitColumns ==
    /\ pc = "ready"
    /\ pc' = "done"
    /\ ret' = SplitColumns(arg)
    /\ UNCHANGED arg

NextSplit == CallSplitColumns

SpecSplit == InitSplit /\ [][NextSplit]_vars

(***************************************************************************)
(* C1.                                                                     *)
(***************************************************************************)
RECURSIVE Escaped(_, _)
\* Position k (1-based) of s is escaped: it follows a backslash that is not
\* itself escaped.
Escaped(s, k) == k > 1 /\ s[k - 1] = BS /\ ~Escaped(s, k - 1)

\* The unescaped double quotes strictly before position k.
QuotesBefore(s, k) == {p \in 1..(k - 1) : s[p] = DQ /\ ~Escaped(s, p)}

\* The commas of s that are unescaped and outside quotes.
SplitCommas(s) ==
    {k \in 1..Len(s) : /\ s[k] = COMMA
                       /\ ~Escaped(s, k)
                       /\ Cardinality(QuotesBefore(s, k)) % 2 = 0}

\* The m-th smallest element of the finite set S of integers.
Nth(S, m) == CHOOSE k \in S : Cardinality({x \in S : x < k}) = m - 1

\* The m-th piece of s cut at the positions of S.
Piece(s, S, m) ==
    LET from == IF m = 1 THEN 1 ELSE Nth(S, m - 1) + 1
        to   == IF m = Cardinality(S) + 1 THEN Len(s) ELSE Nth(S, m) - 1
    IN  SubSeq(s, from, to)

\* C1: _split_columns emits exactly the pieces of s cut at the commas that are
\* unescaped and outside quotes; the last piece is emitted even when empty, so
\* there are 1 + (number of such commas) segments and joining them with ","
\* gives back s.
C1_SplitAtUnquotedCommas ==
    pc = "done" =>
        LET S == SplitCommas(arg)
        IN  /\ Len(ret) = 1 + Cardinality(S)
            /\ \A m \in 1..Len(ret) : ret[m] = Piece(arg, S, m)
            /\ Join(ret, COMMA) = arg

\* A header whose quoted comma does not split and whose trailing comma does:
\* the final segment is empty.
C1_Witness ==
    /\ pc = "done"
    /\ arg = <<DQ, COMMA, DQ, COMMA>>
    /\ ret = <<<<DQ, COMMA, DQ>>, <<>>>>

(***************************************************************************)
(* _tokenize_column (pyzinc.py 176-222).                                   *)
(***************************************************************************)
\* line 42: the MARKER singleton, the value of a tag that has none.
MARKER == <<"MARKER">>

\* line 179: tag = None.  A tag is text, possibly empty; None is neither.
None == <<"None">>

\* A (tag, value) pair yielded by the tokenizer.
Pair(tag, val) == [tag |-> tag, val |-> val]

\* The tokenizer's outcome: the pairs yielded, and the exception that ended
\* the scan ("none" when it ran to completion).
Tokens(toks, exc) == [toks |-> toks, exc |-> exc]

\* lines 218-222: the yield at the end of the string.
EndOfString(s, i, j, tag, out) ==
    IF tag = None
    THEN Append(out, Pair(Slice(s, i + 1, j), MARKER))
    ELSE Append(out, Pair(tag, Slice(s, i + 1, j)))

RECURSIVE TokScan(_, _, _, _, _, _, _)
\* The while loop of lines 180-217 from the state (i, j, inside_quotes,
\* inside_ref, tag), with the pairs yielded so far in out.
TokScan(s, i, j, inside_quotes, inside_ref, tag, out) ==
    IF j >= Len(s) THEN Tokens(EndOfString(s, i, j, tag, out), "none")
    ELSE LET c == CharAt(s, j) IN
    IF c = BS
    THEN \* always skip escaped chars
         TokScan(s, i, j + 2, inside_quotes, inside_ref, tag, out)
    ELSE IF tag = None
    THEN IF c = COLON
         THEN \* the lookahead s[j+1] of line 192
              IF j + 1 >= Len(s) THEN Tokens(out, "IndexError")
              ELSE IF CharAt(s, j + 1) = AT
                   THEN TokScan(s, j, j + 2, inside_quotes, TRUE,
                                Slice(s, i + 1, j), out)
                   ELSE TokScan(s, j, j + 1, inside_quotes, inside_ref,
                                Slice(s, i + 1, j), out)
         ELSE IF c = SP
         THEN TokScan(s, j, j + 1, inside_quotes, inside_ref, None,
                      Append(out, Pair(Slice(s, i + 1, j), MARKER)))
         ELSE TokScan(s, i, j + 1, inside_quotes, inside_ref, tag, out)
    ELSE IF c = DQ /\ inside_quotes /\ inside_ref
         THEN \* the end of a ref; line 204 asserts what follows it
              IF ~(j + 1 = Len(s) \/ CharAt(s, j + 1) = SP)
              THEN Tokens(out, "AssertionError")
              ELSE TokScan(s, j + 1, j + 2, FALSE, FALSE, None,
                           Append(out, Pair(tag, Slice(s, i + 1, j + 1))))
         ELSE IF c = DQ
         THEN TokScan(s, i, j + 1, ~inside_quotes, inside_ref, tag, out)
         ELSE IF c = SP /\ ~(inside_quotes \/ inside_ref)
         THEN TokScan(s, j, j + 1, inside_quotes, inside_ref, None,
                      Append(out, Pair(tag, Slice(s, i + 1, j))))
         ELSE TokScan(s, i, j + 1, inside_quotes, inside_ref, tag, out)

\* list(_tokenize_column(s)), with the exception that ended it
TokenizeColumn(s) == TokScan(s, -1, 0, FALSE, FALSE, None, <<>>)

(***************************************************************************)
(* Column definitions of the grammar colName (SP tag (":" value)?)*.       *)
(* An element is a marker tag, a tag with a plain or a quoted value, or a  *)
(* tag with a ref literal @id "name".                                      *)
(***************************************************************************)
MarkerTag(tag) == [tag |-> tag, form |-> "marker"]
PlainTag(tag, text) == [tag |-> tag, form |-> "plain", text |-> text]
QuotedTag(tag, text) == [tag |-> tag, form |-> "quoted", text |-> text]
RefTag(tag, id, name) == [tag |-> tag, form |-> "ref", id |-> id, name |-> name]

\* The raw value text of an element, as it stands after the colon.
RawValue(e) ==
    IF e.form = "plain" THEN e.text
    ELSE IF e.form = "quoted" THEN <<DQ>> \o e.text \o <<DQ>>
    ELSE <<AT>> \o e.id \o <<SP, DQ>> \o e.name \o <<DQ>>

RenderElement(e) ==
    IF e.form = "marker" THEN e.tag ELSE e.tag \o <<COLON>> \o RawValue(e)

RECURSIVE RenderElements(_)
RenderElements(es) ==
    IF es = <<>> THEN <<>>
    ELSE <<SP>> \o RenderElement(es[1]) \o RenderElements(Tail(es))

\* The text of the column named name that declares the elements es.
RenderColumn(name, es) == name \o RenderElements(es)

\* The pair the grammar assigns to an element.
ElementPair(e) ==
    IF e.form = "marker" THEN Pair(e.tag, MARKER) ELSE Pair(e.tag, RawValue(e))

\* Sequences of at most n distinct members of the set S.
RECURSIVE DistinctSeqs(_, _)
DistinctSeqs(S, n) ==
    IF n = 0 THEN {<<>>}
    ELSE LET shorter == DistinctSeqs(S, n - 1)
             longest == {u \in shorter : Len(u) = n - 1}
         IN  shorter \cup
             UNION {{Append(t, e) : e \in S \ {t[k] : k \in 1..Len(t)}} :
                       t \in longest}

\* The elements the modelled headers declare.
HeaderElements ==
    { MarkerTag(<<"h", "i", "s">>),
      PlainTag(<<"c", "u", "r", "V", "a", "l">>, <<"1", "3", "m", "3">>),
      PlainTag(<<"p", "r", "e", "c", "i", "s", "i", "o", "n">>, <<"1">>),
      QuotedTag(<<"u", "n", "i", "t">>, <<"m", "3">>),
      QuotedTag(<<"d", "i", "s">>, <<"u", ":", SP, "t">>),
      RefTag(<<"i", "d">>, <<"p", ":", "1">>, <<"B", SP, "O">>),
      RefTag(<<"s", "i", "t", "e", "R", "e", "f">>, <<"s">>, <<>>) }

\* The name of the data column the modelled headers declare.
V0 == <<"v", "0">>

TokenizeInputs ==
    {[decl |-> es, text |-> RenderColumn(V0, es)] :
        es \in DistinctSeqs(HeaderElements, MaxTags)}

InitTokenize ==
    /\ pc = "ready"
    /\ arg \in TokenizeInputs
    /\ ret = Tokens(<<>>, "none")

CallTokenizeColumn ==
    /\ pc = "ready"
    /\ pc' = "done"
    /\ ret' = TokenizeColumn(arg.text)
    /\ UNCHANGED arg

NextTokenize == CallTokenizeColumn

SpecTokenize == InitTokenize /\ [][NextTokenize]_vars

(***************************************************************************)
(* C2.                                                                     *)
(***************************************************************************)
\* C2: for every column definition of the grammar, whatever its last element
\* is, the tokenizer yields exactly one pair per element (the column name and
\* then every tag), in declaration order, and no pair has an empty tag name.
C2_OnePairPerElement ==
    pc = "done" =>
        /\ ret.exc = "none"
        /\ Len(ret.toks) = 1 + Len(arg.decl)
        /\ ret.toks[1] = Pair(V0, MARKER)
        /\ \A k \in 1..Len(arg.decl) : ret.toks[k + 1] = ElementPair(arg.decl[k])
        /\ \A k \in 1..Len(ret.toks) : ret.toks[k].tag # <<>>

(***************************************************************************)
(* _tokenize_column on arbitrary text.                                     *)
(***************************************************************************)
\* The characters the scan of lines 180-217 tells apart, and one it does not.
ScanAlphabet == {"a", COLON, AT, SP, DQ, BS}

\* The column definition "v0 foo:".
V0_FOO_COLON == <<"v", "0", SP, "f", "o", "o", COLON>>

\* The texts given to the tokenizer: every text of at most MaxLen characters
\* of the alphabet, and the column definition "v0 foo:".
ScanInputs ==
    {[text |-> s] : s \in SeqsUpTo(ScanAlphabet, MaxLen) \cup {V0_FOO_COLON}}

InitScan ==
    /\ pc = "ready"
    /\ arg \in ScanInputs
    /\ ret = Tokens(<<>>, "none")

SpecScan == InitScan /\ [][NextTokenize]_vars

\* The text s is a column name, a space and a tag closed by a final colon,
\* with no quote, escape, ref sign or other colon in it.
IsNameTagColon(s) ==
    /\ Len(s) >= 2
    /\ s[Len(s)] = COLON
    /\ Cardinality({k \in 1..Len(s) : s[k] = SP}) = 1
    /\ \A k \in 1..(Len(s) - 1) : s[k] \notin {COLON, DQ, BS, AT}

(***************************************************************************)
(* C11.                                                                    *)
(***************************************************************************)
\* C11: for every text s, every position the scan reads lies in 0..len(s)-1
\* (the scan never ends with an IndexError, the outcome of a read past the
\* end: the positions it reads are never negative), the lookahead after a
\* tag-closing colon included; and a column definition whose last character
\* is that colon, such as "v0 foo:", is tokenized to completion, its last
\* pair being the tag with the pending empty value.
C11_ScanReadsInRange ==
    pc = "done" =>
        /\ ret.exc # "IndexError"
        /\ IsNameTagColon(arg.text) =>
              /\ ret.exc = "none"
              /\ Len(ret.toks) = 2
              /\ ret.toks[2].val = <<>>

(***************************************************************************)
(* _parse_zinc_header (pyzinc.py 131-156).                                 *)
(***************************************************************************)
ID_COLTAG == <<"i", "d">>
UNIT_COLTAG == <<"u", "n", "i", "t">>
KIND_COLTAG == <<"k", "i", "n", "d">>
ENUM_COLTAG == <<"e", "n", "u", "m">>
NUMERIC_TAGS ==
    << <<"c", "u", "r", "V", "a", "l">>,
       <<"p", "r", "e", "c", "i", "s", "i", "o", "n">>,
       <<"w", "r", "i", "t", "e", "L", "e", "v", "e", "l">>,
       <<"w", "r", "i", "t", "e", "V", "a", "l">> >>

\* The values a tag has after normalization: the marker, a string, a ref pair
\* (refid, refname), or a float.
MarkerV == [t |-> "marker"]
StrV(s) == [t |-> "str", s |-> s]
RefV(id, name) == [t |-> "ref", id |-> id, name |-> name]
FloatV(n) == [t |-> "float", n |-> n]

\* An OrderedDict is the sequence of its items in insertion order.
DictHas(d, k) == \E x \in 1..Len(d) : d[x].k = k
DictGet(d, k) == d[CHOOSE x \in 1..Len(d) : d[x].k = k].v
DictSet(d, k, v) ==
    IF DictHas(d, k)
    THEN [x \in 1..Len(d) |-> IF d[x].k = k THEN [k |-> k, v |-> v] ELSE d[x]]
    ELSE Append(d, [k |-> k, v |-> v])

RECURSIVE LStripChars(_, _)
\* Python s.lstrip(chars): drops leading characters that are in chars.
LStripChars(s, chars) ==
    IF s # <<>> /\ s[1] \in chars THEN LStripChars(Tail(s), chars) ELSE s

RECURSIVE RStripChars(_, _)
\* Python s.rstrip(chars): drops trailing characters that are in chars.
RStripChars(s, chars) ==
    IF s # <<>> /\ s[Len(s)] \in chars
    THEN RStripChars(SubSeq(s, 1, Len(s) - 1), chars)
    ELSE s

\* Python s.strip(chars).
StripChars(s, chars) == RStripChars(LStripChars(s, chars), chars)

\* The characters of a string, as the chars argument of strip and rstrip.
CharsOf(s) == {s[k] : k \in 1..Len(s)}

\* Python s.startswith(c) for a character c.
StartsWith(s, c) == s # <<>> /\ s[1] = c

\* Python s.endswith(suffix).
EndsWith(s, suffix) ==
    /\ Len(suffix) <= Len(s)
    /\ SubSeq(s, Len(s) - Len(suffix) + 1, Len(s)) = suffix

\* The positions of the spaces of v.
Spaces(v) == {k \in 1..Len(v) : v[k] = SP}

\* A mutant of SplitOnce: splits at the last space (rsplit).
SplitAtLastSpace(v) ==
    IF Spaces(v) = {} THEN <<v>>
    ELSE LET k == CHOOSE x \in Spaces(v) : \A y \in Spaces(v) : y <= x
         IN  <<SubSeq(v, 1, k - 1), SubSeq(v, k + 1, Len(v))>>

\* line 145: v.split(' ', maxsplit=1), the list of one or two parts.
SplitOnce(v) ==
    IF Spaces(v) = {} THEN <<v>>
    ELSE LET k == CHOOSE x \in Spaces(v) : \A y \in Spaces(v) : x <= y
         IN  <<SubSeq(v, 1, k - 1), SubSeq(v, k + 1, Len(v))>>

Digits == {"0", "1", "2", "3", "4", "5", "6", "7", "8", "9"}

DigitValue(c) ==
    CASE c = "0" -> 0 [] c = "1" -> 1 [] c = "2" -> 2 [] c = "3" -> 3
      [] c = "4" -> 4 [] c = "5" -> 5 [] c = "6" -> 6 [] c = "7" -> 7
      [] c = "8" -> 8 [] c = "9" -> 9

RECURSIVE DecimalValue(_)
DecimalValue(s) ==
    IF s = <<>> THEN 0
    ELSE 10 * DecimalValue(SubSeq(s, 1, Len(s) - 1)) + DigitValue(s[Len(s)])

\* Python float(s) on text of digits and letters: the number a non-empty
\* string of decimal digits writes, ValueError on any other text.
ParseFloat(s) ==
    IF s # <<>> /\ CharsOf(s) \subseteq Digits
    THEN [exc |-> "none", n |-> DecimalValue(s)]
    ELSE [exc |-> "ValueError", n |-> 0]

\* A value or the exception raised instead of it.
Ok(v) == [exc |-> "none", v |-> v]
Raise(e) == [exc |-> e, v |-> <<>>]

\* lines 139-148: the value stored for a raw token value.
Normalize(raw) ==
    IF raw = MARKER THEN Ok(MarkerV)
    ELSE LET v == StripChars(raw, {DQ}) IN
         IF StartsWith(v, AT)
         THEN LET parts == SplitOnce(v) IN
              \* refid, refname = ...: unpacking fewer than two parts raises
              IF Len(parts) < 2 THEN Raise("ValueError")
              ELSE Ok(RefV(parts[1], StripChars(parts[2], {DQ})))
         ELSE Ok(StrV(v))

RECURSIVE StoreTokens(_, _, _)
\* The loop of lines 138-148 over the pairs toks[k..], filling the column's
\* metadata d.
StoreTokens(toks, k, d) ==
    IF k > Len(toks) THEN Ok(d)
    ELSE LET n == Normalize(toks[k].val) IN
         IF n.exc # "none" THEN Raise(n.exc)
         ELSE StoreTokens(toks, k + 1, DictSet(d, toks[k].tag, n.v))

\* line 155: float(val.rstrip(unit)) for the stored value val of a numeric tag.
StripUnitAndParse(val, unit) ==
    IF val.t # "str" THEN Raise("AttributeError")
    ELSE IF unit.t # "str" THEN Raise("TypeError")
    ELSE LET f == ParseFloat(RStripChars(val.s, CharsOf(unit.s))) IN
         IF f.exc # "none" THEN Raise(f.exc) ELSE Ok(FloatV(f.n))

RECURSIVE ParseNumericTags(_, _)
\* lines 150-155: the numeric tags NUMERIC_TAGS[k..] of the metadata d.
ParseNumericTags(d, k) ==
    IF k > Len(NUMERIC_TAGS) THEN Ok(d)
    ELSE LET tag == NUMERIC_TAGS[k] IN
         IF DictHas(d, tag) /\ DictHas(d, UNIT_COLTAG)
         THEN LET r == StripUnitAndParse(DictGet(d, tag), DictGet(d, UNIT_COLTAG))
              IN  IF r.exc # "none" THEN Raise(r.exc)
                  ELSE ParseNumericTags(DictSet(d, tag, r.v), k + 1)
         ELSE ParseNumericTags(d, k + 1)

\* lines 134-155 for one column definition: its name and its metadata, or the
\* exception raised.  The pairs the tokenizer yielded before it raised are
\* stored before its exception surfaces.
ParseColumn(col) ==
    LET t == TokenizeColumn(col) IN
    IF t.toks = <<>> THEN Raise(t.exc)
    ELSE IF t.toks[1].val # MARKER THEN Raise("AssertionError")
    ELSE LET stored == StoreTokens(t.toks, 2, <<>>) IN
         IF stored.exc # "none" THEN Raise(stored.exc)
         ELSE IF t.exc # "none" THEN Raise(t.exc)
         ELSE LET parsed == ParseNumericTags(stored.v, 1) IN
              IF parsed.exc # "none" THEN Raise(parsed.exc)
              ELSE Ok([k |-> t.toks[1].tag, v |-> parsed.v])

RECURSIVE ParseColumns(_, _, _)
\* The loop of line 133 over the column definitions cols[k..].
ParseColumns(cols, k, column_info) ==
    IF k > Len(cols) THEN Ok(column_info)
    ELSE LET c == ParseColumn(cols[k]) IN
         IF c.exc # "none" THEN Raise(c.exc)
         ELSE ParseColumns(cols, k + 1, DictSet(column_info, c.v.k, c.v.v))

\* _parse_zinc_header(header): the column_info, or the exception raised.
ParseZincHeader(header) == ParseColumns(SplitColumns(header), 1, <<>>)

InitHeader ==
    /\ pc = "ready"
    /\ arg \in TokenizeInputs
    /\ ret = Ok(<<>>)

CallParseZincHeader ==
    /\ pc = "ready"
    /\ pc' = "done"
    /\ ret' = ParseZincHeader(arg.text)
    /\ UNCHANGED arg

NextHeader == CallParseZincHeader

SpecHeader == InitHeader /\ [][NextHeader]_vars

(***************************************************************************)
(* C3.                                                                     *)
(***************************************************************************)
\* C3: every tag whose value is a ref literal @id "name" is stored as the
\* pair ("@id", name), the name without its quotes, and every tag declared
\* after the ref is stored as a tag of its own.
C3_RefStoredAsPair ==
    pc = "done" =>
        \A k \in 1..Len(arg.decl) :
            arg.decl[k].form = "ref" =>
                /\ ret.exc = "none"
                /\ Len(ret.v) = 1
                /\ ret.v[1].k = V0
                /\ DictHas(ret.v[1].v, arg.decl[k].tag)
                /\ DictGet(ret.v[1].v, arg.decl[k].tag)
                       = RefV(<<AT>> \o arg.decl[k].id, arg.decl[k].name)
                /\ \A m \in (k + 1)..Len(arg.decl) :
                       DictHas(ret.v[1].v, arg.decl[m].tag)

\* A ref with an empty name and a ref whose name has a space, each followed
\* by another tag, have been parsed.
C3_Witness ==
    /\ pc = "done"
    /\ Len(arg.decl) = 3
    /\ arg.decl[1] = RefTag(<<"s", "i", "t", "e", "R", "e", "f">>, <<"s">>, <<>>)
    /\ arg.decl[2] = RefTag(ID_COLTAG, <<"p", ":", "1">>, <<"B", SP, "O">>)
    /\ arg.decl[3].form = "marker"
    /\ ret.exc = "none"
    /\ DictGet(ret.v[1].v, ID_COLTAG) = RefV(<<AT, "p", ":", "1">>, <<"B", SP, "O">>)
    /\ DictGet(ret.v[1].v, arg.decl[1].tag) = RefV(<<AT, "s">>, <<>>)
    /\ DictGet(ret.v[1].v, arg.decl[3].tag) = MarkerV

(***************************************************************************)
(* C4.                                                                     *)
(***************************************************************************)
\* s without the suffix, when s ends with it; s otherwise.
RemoveSuffix(s, suffix) ==
    IF EndsWith(s, suffix) THEN SubSeq(s, 1, Len(s) - Len(suffix)) ELSE s

\* The unit declared on the column, as a set of at most one text.
DeclaredUnits(decl) ==
    {decl[k].text : k \in {x \in 1..Len(decl) : decl[x].tag = UNIT_COLTAG}}

\* C4: a numeric tag of a column that declares a unit (before or after it) is
\* stored as the number its text writes once exactly the unit string is
\* removed as a suffix; without a unit tag the raw string is stored.
C4_NumericTagsUnitSuffix ==
    pc = "done" =>
        \A k \in 1..Len(arg.decl) :
            (\E x \in 1..Len(NUMERIC_TAGS) : NUMERIC_TAGS[x] = arg.decl[k].tag) =>
                /\ ret.exc = "none"
                /\ LET stored == DictGet(ret.v[1].v, arg.decl[k].tag)
                       units == DeclaredUnits(arg.decl)
                   IN  IF units = {} THEN stored = StrV(arg.decl[k].text)
                       ELSE \A u \in units :
                              stored = FloatV(ParseFloat(
                                           RemoveSuffix(arg.decl[k].text, u)).n)

(***************************************************************************)
(* The data body as pandas.read_csv returns it (pyzinc.py 103-106).        *)
(***************************************************************************)
\* A missing cell (NaN).
NaN == [t |-> "nan"]

\* A column of a frame: its dtype, its cells and, for a categorical column,
\* its categories in order.
Series(dtype, cells, categories) ==
    [dtype |-> dtype, cells |-> cells, categories |-> categories]

\* read_csv(..., header=None, na_values='N') on one column of cell texts: N
\* and the empty field are missing; a column whose other cells all write
\* numbers is numeric, any other column keeps its cells as text.
ReadCsvColumn(texts) ==
    LET missing(c) == c = <<"N">> \/ c = <<>>
        numeric == \A k \in 1..Len(texts) :
                       missing(texts[k]) \/ ParseFloat(texts[k]).exc = "none"
    IN  Series(IF numeric THEN "float64" ELSE "object",
               [k \in 1..Len(texts) |->
                   IF missing(texts[k]) THEN NaN
                   ELSE IF numeric THEN FloatV(ParseFloat(texts[k]).n)
                   ELSE StrV(texts[k])],
               <<>>)

(***************************************************************************)
(* _sanitize_zinc_series (pyzinc.py 225-248).                              *)
(***************************************************************************)
DEG == "deg"
NUMBER_KIND == <<"N", "u", "m", "b", "e", "r">>
STRING_KIND == <<"S", "t", "r">>
NUMERIC_UNIT_SUFFIXES ==
    << <<DEG, "F">>, <<DEG, "C">>, <<"%">>, <<"c", "f", "m">>, <<"k", "W">> >>

\* An exception with its argument.
RaiseWith(e, m) == [exc |-> e, v |-> m]

\* series.str.rstrip(chars): missing cells stay missing; the accessor exists
\* on text columns only, and chars must be a string.
StrRStrip(series, chars) ==
    IF series.dtype # "object" THEN Raise("AttributeError")
    ELSE IF chars.t # "str" THEN Raise("TypeError")
    ELSE Ok(Series("object",
                   [k \in 1..Len(series.cells) |->
                       IF series.cells[k] = NaN THEN NaN
                       ELSE StrV(RStripChars(series.cells[k].s, CharsOf(chars.s)))],
                   <<>>))

\* pd.to_numeric(series): every text cell parsed, the empty text and the
\* missing cell missing; ValueError on text that writes no number.
ToNumeric(series) ==
    IF series.dtype = "float64" THEN Ok(series)
    ELSE LET bad(c) == c # NaN /\ c.s # <<>> /\ ParseFloat(c.s).exc # "none" IN
         IF \E k \in 1..Len(series.cells) : bad(series.cells[k])
         THEN Raise("ValueError")
         ELSE Ok(Series("float64",
                        [k \in 1..Len(series.cells) |->
                            IF series.cells[k] = NaN \/ series.cells[k].s = <<>>
                            THEN NaN
                            ELSE FloatV(ParseFloat(series.cells[k].s).n)],
                        <<>>))

RECURSIVE SplitAll(_, _)
\* Python s.split(sep) for a character sep.
SplitAll(s, sep) ==
    LET at == {k \in 1..Len(s) : s[k] = sep} IN
    IF at = {} THEN <<s>>
    ELSE LET k == CHOOSE x \in at : \A y \in at : x <= y
         IN  <<SubSeq(s, 1, k - 1)>> \o SplitAll(SubSeq(s, k + 1, Len(s)), sep)

\* lines 238-240: series.astype(CategoricalDtype(categories=enum.split(","))).
\* The categories must be unique; a cell that is no category becomes missing.
AsCategorical(series, enum) ==
    IF enum.t # "str" THEN Raise("AttributeError")
    ELSE LET cats == SplitAll(enum.s, COMMA) IN
         IF \E a, b \in 1..Len(cats) : a # b /\ cats[a] = cats[b]
         THEN Raise("ValueError")
         ELSE Ok(Series("category",
                        [k \in 1..Len(series.cells) |->
                            IF /\ series.cells[k].t = "str"
                               /\ \E x \in 1..Len(cats) : cats[x] = series.cells[k].s
                            THEN series.cells[k]
                            ELSE NaN],
                        cats))

RECURSIVE InferFromFirstCell(_, _)
\* lines 245-247: the loop over NUMERIC_UNIT_SUFFIXES[k..]; series[0] is the
\* first cell, and only text has endswith.
InferFromFirstCell(series, k) ==
    IF k > Len(NUMERIC_UNIT_SUFFIXES) THEN Ok(series)
    ELSE IF series.cells = <<>> THEN Raise("KeyError")
    ELSE IF series.cells[1].t # "str" THEN Raise("AttributeError")
    ELSE IF EndsWith(series.cells[1].s, NUMERIC_UNIT_SUFFIXES[k])
         THEN LET stripped == StrRStrip(series, StrV(NUMERIC_UNIT_SUFFIXES[k]))
              IN  IF stripped.exc # "none" THEN Raise(stripped.exc)
                  ELSE ToNumeric(stripped.v)
         ELSE InferFromFirstCell(series, k + 1)

\* _sanitize_zinc_series(series, colinfo): the coerced column, or the
\* exception raised.
SanitizeZincSeries(series, colinfo) ==
    IF colinfo # <<>>
    THEN IF ~DictHas(colinfo, KIND_COLTAG) THEN Raise("KeyError")
         ELSE LET kind == DictGet(colinfo, KIND_COLTAG) IN
              IF kind = StrV(NUMBER_KIND)
              THEN IF DictHas(colinfo, UNIT_COLTAG)
                   THEN LET unitless == StrRStrip(series, DictGet(colinfo, UNIT_COLTAG))
                        IN  IF unitless.exc # "none" THEN Raise(unitless.exc)
                            ELSE ToNumeric(unitless.v)
                   ELSE Ok(series)
              ELSE IF DictHas(colinfo, ENUM_COLTAG)
              THEN AsCategorical(series, DictGet(colinfo, ENUM_COLTAG))
              ELSE IF kind # StrV(STRING_KIND)
              THEN RaiseWith("ZincParseException", kind)
              ELSE Ok(series)
    ELSE InferFromFirstCell(series, 1)

(***************************************************************************)
(* The data columns the modelled payloads declare, and their cells.        *)
(***************************************************************************)
\* most rows of a modelled body
MaxRows == 2

KindTag(kind) == PlainTag(KIND_COLTAG, kind)
UnitDegF == QuotedTag(UNIT_COLTAG, <<DEG, "F">>)
EnumAB == QuotedTag(ENUM_COLTAG, <<"A", COMMA, "B">>)
BOOL_KIND == <<"B", "o", "o", "l">>
IdRef == RefTag(ID_COLTAG, <<"r">>, <<"P", SP, "1">>)
IdPlain == PlainTag(ID_COLTAG, <<"a", "b", "c">>)

\* The tags a data column declares after its name.
DataDecls ==
    { <<>>,
      <<KindTag(NUMBER_KIND), UnitDegF>>,
      <<KindTag(NUMBER_KIND)>>,
      <<KindTag(NUMBER_KIND), EnumAB>>,
      <<KindTag(STRING_KIND)>>,
      <<KindTag(STRING_KIND), EnumAB>>,
      <<EnumAB>>,
      <<KindTag(BOOL_KIND)>>,
      <<KindTag(BOOL_KIND), EnumAB>>,
      <<IdRef, KindTag(STRING_KIND)>>,
      <<IdPlain, KindTag(STRING_KIND)>> }

\* The cell texts of a body: null, the empty field, two words, a number, and
\* a number with a unit.
CellTexts ==
    { <<"N">>, <<>>, <<"A">>, <<"C">>, <<"7">>, <<"6", "6", DEG, "F">> }

\* The columns of cell texts of a body of 1..MaxRows rows.
CellColumns == SeqsUpTo(CellTexts, MaxRows) \ {<<>>}

\* The metadata _parse_zinc_header gives the column v0 that declares decl.
ColInfoOf(decl) == ParseZincHeader(RenderColumn(V0, decl)).v[1].v

SanitizeInputs ==
    {[decl |-> d, texts |-> c, colinfo |-> ColInfoOf(d), series |-> ReadCsvColumn(c)] :
        d \in DataDecls, c \in CellColumns}

InitSanitize ==
    /\ pc = "ready"
    /\ arg \in SanitizeInputs
    /\ ret = Ok(<<>>)

CallSanitizeZincSeries ==
    /\ pc = "ready"
    /\ pc' = "done"
    /\ ret' = SanitizeZincSeries(arg.series, arg.colinfo)
    /\ UNCHANGED arg

NextSanitize == CallSanitizeZincSeries

SpecSanitize == InitSanitize /\ [][NextSanitize]_vars

(***************************************************************************)
(* C5.                                                                     *)
(***************************************************************************)
\* C5: whenever the column's metadata has an enum tag, also when it has no
\* other tag, the column is coerced to a categorical column whose categories
\* are the comma-split enum list in declared order; a cell equal to a
\* category keeps it and any other cell is missing.
C5_EnumIsCategorical ==
    (pc = "done" /\ DictHas(arg.colinfo, ENUM_COLTAG)) =>
        /\ ret.exc = "none"
        /\ ret.v.dtype = "category"
        /\ ret.v.categories = <<<<"A">>, <<"B">>>>
        /\ Len(ret.v.cells) = Len(arg.texts)
        /\ \A k \in 1..Len(arg.texts) :
               ret.v.cells[k] = IF arg.texts[k] \in {<<"A">>, <<"B">>}
                                THEN StrV(arg.texts[k]) ELSE NaN

(***************************************************************************)
(* C10.                                                                    *)
(***************************************************************************)
\* The text s ends with one of the known unit suffixes.
HasKnownSuffix(s) ==
    \E x \in 1..Len(NUMERIC_UNIT_SUFFIXES) : EndsWith(s, NUMERIC_UNIT_SUFFIXES[x])

\* C10: with empty metadata, a column whose first cell is null is returned
\* unchanged and the call does not fail; a column whose first cell is text
\* ending in a known unit suffix (its other cells null or of the same form)
\* becomes numeric.
C10_HeuristicFirstCell ==
    (pc = "done" /\ arg.colinfo = <<>>) =>
        /\ arg.texts[1] = <<"N">> =>
               (ret.exc = "none" /\ ret.v = arg.series)
        /\ (\A k \in 1..Len(arg.texts) :
               arg.texts[k] = <<"N">> \/ HasKnownSuffix(arg.texts[k]))
           /\ arg.texts[1] # <<"N">> =>
               (ret.exc = "none" /\ ret.v.dtype = "float64")

(***************************************************************************)
(* zinc_to_frame, zinc_to_series and _set_datetime_index                   *)
(* (pyzinc.py 93-128, 251-255).                                            *)
(***************************************************************************)
\* most data columns of a modelled payload
MaxCols == 2

TS == <<"t", "s">>
TZ_COLTAG == <<"t", "z">>
DEFAULT_TZ == <<"L", "o", "s", "_", "A", "n", "g", "e", "l", "e", "s">>

\* The label read_csv gives column i (header=None), and a name as a label.
IntLabel(i) == [t |-> "int", n |-> i]

\* A column of the frame under its label.
Column(name, series) == [name |-> name, series |-> series]

\* An exception raised by zinc_to_frame: at names the step that raised
\* ("split", "header", "rename", "coerce", "index", "series") and col the
\* column it was working on.
RaiseAt(e, m, at, col) == [exc |-> e, v |-> m, at |-> at, col |-> col]
Return(v) == [exc |-> "none", v |-> v, at |-> "", col |-> 0]

\* lines 103-106: the frame read_csv returns for the body's columns.
ReadCsv(body) ==
    [k \in 1..Len(body) |-> Column(IntLabel(k - 1), ReadCsvColumn(body[k]))]

\* lines 110-113: the new name of a data column named k with metadata v.
\* v[ID_COLTAG][1] is the display name of a ref pair, the second character
\* of a string, and an error on a marker or a float.
RenameTarget(k, v) ==
    IF DictHas(v, ID_COLTAG)
    THEN LET id == DictGet(v, ID_COLTAG) IN
         IF id.t = "ref" THEN Ok(StrV(id.name))
         ELSE IF id.t = "str"
              THEN IF Len(id.s) >= 2 THEN Ok(StrV(<<id.s[2]>>))
                   ELSE Raise("IndexError")
         ELSE Raise("TypeError")
    ELSE Ok(StrV(k))

\* lines 107-114: the loop that builds renaming, then data.rename.  Only a
\* column whose label is a key of renaming is renamed.
RenameColumns(data, column_info) ==
    LET target(i) == RenameTarget(column_info[i].k, column_info[i].v)
        failed == {i \in 2..Len(column_info) : target(i).exc # "none"}
    IN  IF failed # {}
        THEN LET i == CHOOSE x \in failed : \A y \in failed : x <= y
             IN  RaiseAt(target(i).exc, <<>>, "rename", i - 1)
        ELSE Return([i \in 1..Len(data) |->
                        IF i \in 2..Len(column_info)
                        THEN Column(target(i).v, data[i].series)
                        ELSE data[i]])

RECURSIVE CoerceColumns(_, _, _)
\* lines 115-120: the loop over the header's columns from the i-th on.  The
\* names of the data columns are taken to be distinct, so that data[cname]
\* is the i-th column.
CoerceColumns(data, column_info, i) ==
    IF i > Len(column_info) THEN Return(data)
    ELSE IF i > Len(data) THEN RaiseAt("IndexError", <<>>, "coerce", i - 1)
    ELSE IF i = 1 THEN CoerceColumns(data, column_info, i + 1)
    ELSE LET r == SanitizeZincSeries(data[i].series, column_info[i].v) IN
         IF r.exc # "none" THEN RaiseAt(r.exc, r.v, "coerce", i - 1)
         ELSE CoerceColumns([k \in 1..Len(data) |->
                                IF k = i THEN Column(data[k].name, r.v)
                                ELSE data[k]],
                            column_info, i + 1)

\* An instant of time.
Timestamp(n) == [t |-> "timestamp", n |-> n]
NaT == [t |-> "nat"]

\* pd.DatetimeIndex on one cell: the instant its text writes.  An instant is
\* written as a decimal number; text that writes none is a ValueError.
ParseTimestamp(c) ==
    IF c = NaN THEN Ok(NaT)
    ELSE LET f == ParseFloat(c.s) IN
         IF f.exc # "none" THEN Raise("ValueError") ELSE Ok(Timestamp(f.n))

\* line 252: colinfo.get('tz', DEFAULT_TZ)
TimezoneOf(colinfo) ==
    IF DictHas(colinfo, TZ_COLTAG) THEN DictGet(colinfo, TZ_COLTAG)
    ELSE StrV(DEFAULT_TZ)

\* lines 253-255: the frame [columns, index] after _set_datetime_index(data,
\* colinfo): the index parsed from the column labelled 0, which is dropped.
SetDatetimeIndex(data, colinfo) ==
    LET zero == {i \in 1..Len(data) : data[i].name = IntLabel(0)} IN
    IF zero = {} THEN RaiseAt("KeyError", <<>>, "index", 0)
    ELSE LET c == data[CHOOSE i \in zero : TRUE].series
             a == StrRStrip(c, TimezoneOf(colinfo))
         IN
         IF a.exc # "none" THEN RaiseAt(a.exc, <<>>, "index", 0)
         ELSE LET b == StrRStrip(a.v, StrV(<<SP>>))
                  parsed == [k \in 1..Len(b.v.cells) |-> ParseTimestamp(b.v.cells[k])]
              IN
              IF \E k \in 1..Len(parsed) : parsed[k].exc # "none"
              THEN RaiseAt("ValueError", <<>>, "index", 0)
              ELSE Return([columns |-> SelectSeq(data, LAMBDA col : col.name # IntLabel(0)),
                           index |-> [k \in 1..Len(parsed) |-> parsed[k].v]])

\* A ZincDataFrame: its data columns, its index and its column_info.
ZincDataFrame(columns, index, column_info) ==
    [columns |-> columns, index |-> index, column_info |-> column_info]

\* lines 121-122: the ZincDataFrame made of the frame that _set_datetime_index
\* returned, or the exception it raised.
FrameOfIndexed(indexed, column_info) ==
    IF indexed.exc # "none" THEN indexed
    ELSE Return(ZincDataFrame(indexed.v.columns, indexed.v.index, column_info))

\* line 121: _set_datetime_index(data, column_info['ts']) on the coerced
\* columns; column_info['ts'] is a KeyError when no column is named ts.
SetIndexOfCoerced(coerced, column_info) ==
    IF coerced.exc # "none" THEN coerced
    ELSE IF ~DictHas(column_info, TS) THEN RaiseAt("KeyError", <<>>, "index", 0)
    ELSE FrameOfIndexed(SetDatetimeIndex(coerced.v, DictGet(column_info, TS)),
                        column_info)

\* lines 115-121: the coercion loop on the renamed columns, then the index.
CoerceRenamed(renamed, column_info) ==
    IF renamed.exc # "none" THEN renamed
    ELSE SetIndexOfCoerced(CoerceColumns(renamed.v, column_info, 1), column_info)

\* lines 100-122: zinc_to_frame after _parse_zinc_header has returned h.
FrameOfHeader(h, splits) ==
    IF h.exc # "none" THEN RaiseAt(h.exc, <<>>, "header", 0)
    ELSE IF Len(splits) < 3 THEN Return(ZincDataFrame(<<>>, <<>>, h.v))
    ELSE CoerceRenamed(RenameColumns(ReadCsv(splits[3]), h.v), h.v)

\* zinc_to_frame(zinc), for the segments splits that re.split finds in zinc
\* (at most three: the version line, the header line and the body, a body
\* being its columns of cell texts).
ZincToFrame(splits) ==
    IF Len(splits) < 2
    THEN RaiseAt("ZincParseException", <<"Malformed input">>, "split", 0)
    ELSE FrameOfHeader(ParseZincHeader(splits[2]), splits)

\* line 128: the column_info given to the ZincSeries.
SeriesColumnInfo(zdf) == zdf.column_info

\* line 128: the ZincSeries of the first column of the frame f, with the
\* frame's index (zdf.columns[0] is an IndexError on a frame without columns).
FirstColumnSeries(f) ==
    IF f.exc # "none" THEN f
    ELSE IF f.v.columns = <<>> THEN RaiseAt("IndexError", <<>>, "series", 0)
    ELSE Return([name |-> f.v.columns[1].name,
                 series |-> f.v.columns[1].series,
                 index |-> f.v.index,
                 column_info |-> SeriesColumnInfo(f.v)])

\* zinc_to_series(zinc)
ZincToSeries(splits) == FirstColumnSeries(ZincToFrame(splits))

(***************************************************************************)
(* The modelled payloads.                                                  *)
(***************************************************************************)
TIME == <<"t", "i", "m", "e">>
DENVER == <<"D", "e", "n", "v", "e", "r">>

\* The first column of the header: its name, and its tz tag or none.
FirstColumns ==
    {[name |-> n, decl |-> d] :
        n \in {TS, TIME}, d \in {<<>>, <<QuotedTag(TZ_COLTAG, DENVER)>>}}

\* The timezone name the cells of the first column end with.
CellTimezone(first) == IF first.decl = <<>> THEN DEFAULT_TZ ELSE DENVER

\* The cells of the first column: instants 1, 2, ... followed by a space and
\* the timezone name.
TimestampCells(first) ==
    [k \in 1..MaxRows |->
        <<(CASE k = 1 -> "1" [] k = 2 -> "2" [] k = 3 -> "3" [] OTHER -> "4")>>
        \o <<SP>> \o CellTimezone(first)]

\* The cell columns of a data column of a payload.
FrameCellColumns ==
    { [k \in 1..MaxRows |-> IF k = 1 THEN <<"A">> ELSE <<"N">>],
      [k \in 1..MaxRows |-> IF k = 1 THEN <<"6", "6", DEG, "F">> ELSE <<"N">>],
      [k \in 1..MaxRows |-> IF k = 1 THEN <<"N">> ELSE <<"6", "6", DEG, "F">>] }

\* The name of the i-th data column: v0, v1, ...
DataName(i) ==
    <<"v", (CASE i = 1 -> "0" [] i = 2 -> "1" [] i = 3 -> "2" [] OTHER -> "3")>>

\* The data columns of a payload: at most MaxCols, their declarations
\* distinct, each with its cells.
DataColumnSeqs ==
    UNION {[1..Len(ds) -> FrameCellColumns] \X {ds} :
              ds \in DistinctSeqs(DataDecls, MaxCols)}

\* The header line of a payload.
HeaderLine(first, decls) ==
    Join(<<RenderColumn(first.name, first.decl)>>
         \o [i \in 1..Len(decls) |-> RenderColumn(DataName(i), decls[i])],
         COMMA)

VERSION == <<"v", "e", "r">>

\* A payload without a header line, payloads without a body, and payloads
\* with a body.
FrameInputs ==
    {[first |-> [name |-> TS, decl |-> <<>>], decls |-> <<>>, splits |-> <<VERSION>>]}
    \cup
    {[first |-> f, decls |-> ds, splits |-> <<VERSION, HeaderLine(f, ds)>>] :
        f \in FirstColumns, ds \in DistinctSeqs(DataDecls, 1)}
    \cup
    {[first |-> f, decls |-> dc[2],
      splits |-> <<VERSION, HeaderLine(f, dc[2]),
                   <<TimestampCells(f)>> \o dc[1]>>] :
        f \in FirstColumns, dc \in DataColumnSeqs}

InitFrame ==
    /\ pc = "ready"
    /\ arg \in FrameInputs
    /\ ret = Return(<<>>)

CallZincToFrame ==
    /\ pc = "ready"
    /\ pc' = "frame"
    /\ ret' = ZincToFrame(arg.splits)
    /\ UNCHANGED arg

CallZincToSeries ==
    /\ pc = "ready"
    /\ pc' = "series"
    /\ ret' = ZincToSeries(arg.splits)
    /\ UNCHANGED arg

NextFrame == CallZincToFrame \/ CallZincToSeries

SpecFrame == InitFrame /\ [][NextFrame]_vars

(***************************************************************************)
(* C6.                                                                     *)
(***************************************************************************)
\* The kind values declared on a column that are neither Number nor Str.
UnrecognizedKinds(decl) ==
    {decl[x].text : x \in {y \in 1..Len(decl) :
        /\ decl[y].tag = KIND_COLTAG
        /\ decl[y].text \notin {NUMBER_KIND, STRING_KIND}}}

\* The parse did not fail before it came to coerce data column i.
ReachedColumn(i) ==
    \/ ret.exc = "none"
    \/ ret.at = "index"
    \/ ret.at = "coerce" /\ ret.col >= i

\* C6: for every data column whose kind tag is neither Number nor Str,
\* whatever other tags it has, zinc_to_frame on a payload with a body fails
\* with ZincParseException "Unrecognized kind <value>" naming that value, and
\* returns no table.
C6_UnrecognizedKindFails ==
    (pc = "frame" /\ Len(arg.splits) = 3) =>
        \A i \in 1..Len(arg.decls) : \A kind \in UnrecognizedKinds(arg.decls[i]) :
            ReachedColumn(i) =>
                /\ ret.exc = "ZincParseException"
                /\ ret.v = StrV(kind)
                /\ ret.col = i

(***************************************************************************)
(* C7.                                                                     *)
(***************************************************************************)
\* The display names of the ref literals declared under the id tag.
IdRefNames(decl) ==
    {decl[x].name : x \in {y \in 1..Len(decl) :
        decl[y].tag = ID_COLTAG /\ decl[y].form = "ref"}}

\* C7: in the frame of a payload with a body, data column i is named by the
\* display name of its id tag when that tag is a ref, and by its raw ZINC
\* name otherwise (no id tag, or an id that is not a ref).
C7_DisplayNames ==
    (pc = "frame" /\ Len(arg.splits) = 3 /\ ret.exc = "none") =>
        /\ Len(ret.v.columns) = Len(arg.decls)
        /\ \A i \in 1..Len(arg.decls) :
               IF IdRefNames(arg.decls[i]) # {}
               THEN \A n \in IdRefNames(arg.decls[i]) :
                        ret.v.columns[i].name = StrV(n)
               ELSE ret.v.columns[i].name = StrV(DataName(i))

(***************************************************************************)
(* C8.                                                                     *)
(***************************************************************************)
\* C8: for every payload with a body whose data columns are renamed and
\* coerced, the index is built from data column 0 with the tz tag of header
\* entry 0, whatever that column is named, or with the default timezone when
\* it has none; column 0 is then not among the data columns, which are
\* exactly columns 1..n.
C8_IndexFromFirstColumn ==
    (/\ pc = "frame"
     /\ Len(arg.splits) = 3
     /\ ret.at \notin {"header", "rename", "coerce"}) =>
        /\ ret.exc = "none"
        /\ ret.v.index = [k \in 1..MaxRows |-> Timestamp(k)]
        /\ Len(ret.v.columns) = Len(arg.decls)
        /\ \A i \in 1..Len(ret.v.columns) : ret.v.columns[i].name # IntLabel(0)

(***************************************************************************)
(* C9.                                                                     *)
(***************************************************************************)
\* C9: the series zinc_to_series returns is the first data column of the
\* frame, and its column_info has exactly two entries, the metadata of the ts
\* column and of that first data column, whatever other columns the header
\* declares.
C9_SeriesOwnColumnInfo ==
    (pc = "series" /\ ret.exc = "none") =>
        /\ ret.v.name = ZincToFrame(arg.splits).v.columns[1].name
        /\ ret.v.series = ZincToFrame(arg.splits).v.columns[1].series
        /\ Len(ret.v.column_info) = 2
        /\ ret.v.column_info[1].k = arg.first.name
        /\ ret.v.column_info[2].k = DataName(1)

=============================================================================
